---------------------------- MODULE Spec2Model ----------------------------
(***************************************************************************)
(* A model of scripts/Cyrcos.py: the constructor of                        *)
(* Cyrcos_Repertoire_Comparison_Plot and its methods Create_Segments and   *)
(* Angle_to_XY, and of what Repertoire_Dashboard.py does before it calls   *)
(* the constructor.                                                        *)
(*                                                                         *)
(* The constructor is one synchronous call.  It is modelled as a sequence  *)
(* of steps in source order (pc), so that an exception raised at one line  *)
(* leaves the object exactly as the lines before it left it.               *)
(*                                                                         *)
(* Angles, lengths, radii and positions are real numbers in the source     *)
(* (Python floats).  They are modelled as exact rationals <<n, d>> in       *)
(* lowest terms with d > 0; rounding of IEEE doubles is not modelled.      *)
(***************************************************************************)
EXTENDS Integers, Sequences, FiniteSets, TLC

(***************************************************************************)
(* Bounds of the model.                                                    *)
(***************************************************************************)
MaxSamples == 3
MaxRows == 4
FadeSteps == 3

(***************************************************************************)
(* Exact rational arithmetic.                                              *)
(***************************************************************************)
Abs(x) == IF x < 0 THEN -x ELSE x

RECURSIVE GCD(_, _)
GCD(a, b) == IF b = 0 THEN a ELSE GCD(b, a % b)

\* n/d in lowest terms with a positive denominator (d # 0)
Rat(n, d) ==
    LET g == GCD(Abs(n), Abs(d))
        s == IF d < 0 THEN -1 ELSE 1
    IN  <<(s * n) \div g, (s * d) \div g>>

R(n) == <<n, 1>>
RAdd(a, b) == Rat(a[1] * b[2] + b[1] * a[2], a[2] * b[2])
RNeg(a) == <<-a[1], a[2]>>
RSub(a, b) == RAdd(a, RNeg(b))
RMul(a, b) == Rat(a[1] * b[1], a[2] * b[2])
\* a / b for b # 0
RDiv(a, b) == Rat(a[1] * b[2], a[2] * b[1])
RLt(a, b) == a[1] * b[2] < b[1] * a[2]
RLe(a, b) == a[1] * b[2] <= b[1] * a[2]
RIsZero(a) == a[1] = 0
\* the largest integer that is not above a
RFloor(a) == a[1] \div a[2]
\* a modulo the positive integer m, in [0, m)
RMod(a, m) == RSub(a, R(m * RFloor(RDiv(a, R(m)))))

RECURSIVE RSum(_)
RSum(s) == IF s = <<>> THEN R(0) ELSE RAdd(Head(s), RSum(Tail(s)))

RECURSIVE Sum(_)
Sum(s) == IF s = <<>> THEN 0 ELSE Head(s) + Sum(Tail(s))

Range(s) == {s[i] : i \in DOMAIN s}


(***************************************************************************)
(* Input data.  A clone table (DataFrame) is a sequence of rows in the     *)
(* caller's row order; a row has a clone identifier and a count.  Clone    *)
(* identifiers are unique within a table.  Sample names are integers,      *)
(* ordered as the names they stand for.                                    *)
(***************************************************************************)
IdOrder == <<"c1", "c2", "c3">>
CloneIds == Range(IdOrder)
Counts == {1, 2}

Rows == [CloneID : CloneIds, Clustered : Counts]

RECURSIVE SeqsUpTo(_, _)
\* all sequences over S of length 0..n
SeqsUpTo(S, n) ==
    IF n = 0 THEN {<<>>}
    ELSE LET shorter == SeqsUpTo(S, n - 1)
         IN  shorter \cup {Append(t, x) : t \in {u \in shorter : Len(u) = n - 1}, x \in S}

UniqueIds(df) == \A i, j \in DOMAIN df : df[i].CloneID = df[j].CloneID => i = j

\* the clone tables of at most n rows
Tables(n) == {df \in SeqsUpTo(Rows, n) : UniqueIds(df)}

Ids(df) == {df[i].CloneID : i \in DOMAIN df}

(***************************************************************************)
(* pandas operations used by the constructor.                              *)
(***************************************************************************)
Perms(n) == {p \in [1..n -> 1..n] : \A i, j \in 1..n : p[i] = p[j] => i = j}

IsCountDescending(df) ==
    \A i, j \in DOMAIN df : i < j => df[i].Clustered >= df[j].Clustered

\* df.sort_values([count_col], ascending = [False]): the default sort kind
\* ("quicksort") is not stable, so rows of equal count come out in any order.
\* (a table already in strictly descending order has one such order: itself)
SortValues(df) ==
    IF IsCountDescending(df) /\ \A i, j \in DOMAIN df : i # j => df[i].Clustered # df[j].Clustered
    THEN {df}
    ELSE {s \in {[i \in DOMAIN df |-> df[p[i]]] : p \in Perms(Len(df))} : IsCountDescending(s)}

\* the last n rows kept
TailRows(df, n) == IF Len(df) <= n THEN df ELSE SubSeq(df, Len(df) - n + 1, Len(df))

\* df.head(n), n >= 0
HeadRows(df, n) == IF Len(df) <= n THEN df ELSE SubSeq(df, 1, n)

\* top_clones is <<>> for None and <<n>> for the integer n
TrimTop(df, top) == IF top = <<>> THEN df ELSE HeadRows(df, top[1])

RECURSIVE SortedSeq(_)
\* ascending sequence of a finite set of integers (groupby sorts its keys)
SortedSeq(S) ==
    IF S = {} THEN <<>>
    ELSE LET m == CHOOSE x \in S : \A y \in S : x <= y
         IN  <<m>> \o SortedSeq(S \ {m})

\* DataFrame.groupby([sample_col]): keys ascending, rows of a group in frame order
GroupKeys(frame) == SortedSeq({frame[i].Sample : i \in DOMAIN frame})
\* the columns df_cols of a row (lines 23, 29 and 37)
RowOf(r) == [CloneID |-> r.CloneID, Clustered |-> r.Clustered]
RECURSIVE GroupRows(_, _)
GroupRows(frame, k) ==
    IF frame = <<>> THEN <<>>
    ELSE IF Head(frame).Sample = k
         THEN <<RowOf(Head(frame))>> \o GroupRows(Tail(frame), k)
         ELSE GroupRows(Tail(frame), k)

\* the names and the tables of the input, in the order the loops of lines
\* 27 and 38 meet them
InputNames(input) ==
    IF input.form = "dict" THEN [i \in DOMAIN input.items |-> input.items[i].name]
    ELSE GroupKeys(input.rows)

InputTables(input) ==
    IF input.form = "dict"
    THEN [i \in DOMAIN input.items |->
             [k \in DOMAIN input.items[i].df |-> RowOf(input.items[i].df[k])]]
    ELSE LET keys == GroupKeys(input.rows)
         IN  [i \in DOMAIN keys |-> GroupRows(input.rows, keys[i])]

RECURSIVE FirstSeen(_, _)
\* the elements of a sequence that are not in seen, each once, in the order
\* they first occur
FirstSeen(s, seen) ==
    IF s = <<>> THEN <<>>
    ELSE IF Head(s) \in seen THEN FirstSeen(Tail(s), seen)
    ELSE <<Head(s)>> \o FirstSeen(Tail(s), seen \cup {Head(s)})

\* the caller's own table sorted
CallerTableSortedInPlace(df, sorted_df) == sorted_df

\* The caller's table after clone_dfs[sample][df_cols].sort_values(...) and
\* head(...) of lines 29-32: each of them returns a new DataFrame, the
\* caller's table is left as it was.
CallerTableAfterSort(df, sorted_df) == df

\* the columns added to the caller's own table
CallerTableRankedInPlace(df, ranked_df) == ranked_df

\* The caller's table after comparison_dfs[idx]["Rank"] = ... and
\* comparison_dfs[idx]["Position"] = ... of lines 123-126: the columns are
\* added to the DataFrame made at line 29, not to the caller's.
CallerTableAfterAssign(df, ranked_df) == df

\* the caller's dict of tables after lines 29-32, and after lines 123-126;
\* the groups of a single frame are new tables from the start (line 38)
CallerAfterSort(input, sorted_dfs) ==
    IF input.form = "dict"
    THEN [input EXCEPT !.items =
             [i \in DOMAIN input.items |->
                 [name |-> input.items[i].name,
                  df |-> CallerTableAfterSort(input.items[i].df, sorted_dfs[i])]]]
    ELSE input

CallerAfterAssign(input, ranked_dfs) ==
    IF input.form = "dict"
    THEN [input EXCEPT !.items =
             [i \in DOMAIN input.items |->
                 [name |-> input.items[i].name,
                  df |-> CallerTableAfterAssign(input.items[i].df, ranked_dfs[i])]]]
    ELSE input

(***************************************************************************)
(* State.                                                                  *)
(***************************************************************************)
VARIABLES
    \* the caller's tables, as they are now
    clone_dfs,          \* [form, items, rows]: a dict of name -> table, or one frame
    \* the other arguments of the constructor (never assigned by it)
    top_clones,
    normalize_segments,
    gap_size,
    start_pos,          \* the keywords the lower-cased string contains
    clockwise,
    offset_segments,    \* [kind : {"none", "int", "list"}, idx : Seq(Int)]
    fade_segments,
    segment_face_colors,     \* [kind : {"str", "list", "other"}, value]
    segment_outline_colors,  \* [kind : {"none", "str", "list", "other"}, value]
    \* the object
    samples,
    comparison_dfs,
    segment_lengths,
    start_position,
    direction,
    inner_radii,
    outer_radii,
    segment_starts,
    segment_ends,
    wedge_starts,       \* cur_seg_starts: start_angle column of the wedges
    wedge_ends,         \* cur_seg_ends: end_angle column of the wedges
    segment_alphas,
    borders,            \* start_angle and end_angle columns of the border wedges
    source_data_dict,   \* the columns of the wedges
    self_segment_face_colors,     \* self.segment_face_colors
    self_segment_outline_colors,  \* self.segment_outline_colors
    links,              \* one entry per call of plot.quadratic
    next_pair,          \* position in combinations(range(total_samples), 2)
    pc,
    err,
    \* what outlives one call of the constructor
    sorter,             \* the order sort_values gives to each table it has met
    run,                \* 1 in the first call of the constructor, 2 in the second
    first_run,          \* what the first call built, once a second call is made
    \* a call of Angle_to_XY by itself
    mapper_call,        \* its arguments
    xy_coords,          \* what it returned
    \* a call of Repertoire_Dashboard
    dashboard_call,     \* its arguments clone_dfs and sample_col
    comparison_df       \* the frame that it hands to the plots

args == <<top_clones, normalize_segments, gap_size, start_pos, clockwise,
          offset_segments, fade_segments, segment_face_colors, segment_outline_colors>>
inputs == <<clone_dfs, args>>
calls == <<run, first_run>>
colors == <<self_segment_face_colors, self_segment_outline_colors>>
gathered == <<samples, comparison_dfs>>
geometry == <<segment_lengths, start_position, direction, inner_radii, outer_radii>>
segments == <<segment_starts, segment_ends, wedge_starts, wedge_ends, segment_alphas, borders,
              source_data_dict>>
linking == <<links, next_pair>>
mapper == <<mapper_call, xy_coords>>
dashboard == <<dashboard_call, comparison_df>>
vars == <<inputs, gathered, geometry, colors, segments, linking, pc, err, sorter, calls,
          mapper, dashboard>>

total_samples == Len(samples)

(***************************************************************************)
(* Plot constants of the constructor.                                      *)
(***************************************************************************)
segment_width == <<7, 100>>
offset_shift_amount == <<1, 10>>
min_segment_alpha == <<1, 5>>
radius == <<4, 5>>
FullCircle == 360

(***************************************************************************)
(* Segment lengths.                                                        *)
(***************************************************************************)
\* the sizes of the caller's tables, before top_clones trimmed them
CallerCloneCounts(dfs) ==
    [i \in DOMAIN dfs |-> Len(InputTables(clone_dfs)[i])]

sample_clone_counts(dfs) == [i \in DOMAIN dfs |-> Len(dfs[i])]

total_gap_size(gap, n) == RMul(gap, R(n))
total_segment_len(gap, n) == RSub(R(FullCircle), total_gap_size(gap, n))

\* the division of line 57 or of line 60 is by zero
LengthsDivideByZero(counts, normalize) ==
    IF normalize THEN Len(counts) = 0
    ELSE Len(counts) > 0 /\ Sum(counts) = 0

\* the proportional lengths taken from the full circle, the gaps forgotten
SegmentLengthsOfFullCircle(counts, gap, normalize) ==
    LET n == Len(counts)
    IN  IF normalize
        THEN [i \in 1..n |-> RDiv(total_segment_len(gap, n), R(n))]
        ELSE [i \in 1..n |-> RMul(RDiv(R(counts[i]), R(Sum(counts))), R(FullCircle))]

\* self.segment_lengths, when no division is by zero
SegmentLengths(counts, gap, normalize) ==
    LET n == Len(counts)
    IN  IF normalize
        THEN [i \in 1..n |-> RDiv(total_segment_len(gap, n), R(n))]
        ELSE [i \in 1..n |->
                 RMul(RDiv(R(counts[i]), R(Sum(counts))), total_segment_len(gap, n))]

(***************************************************************************)
(* Start position.  start_pos is the set of keywords that the lower-cased  *)
(* argument contains; the tests are made in the order of the source.       *)
(***************************************************************************)
\* the four names only, their synonyms forgotten
NominalStartOfNamesOnly(sp) ==
    IF "top" \in sp THEN 90
    ELSE IF "right" \in sp THEN 0
    ELSE IF "bottom" \in sp THEN -90
    ELSE IF "left" \in sp THEN -180
    ELSE 90

NominalStart(sp) ==
    IF "top" \in sp \/ "north" \in sp THEN 90
    ELSE IF "right" \in sp \/ "east" \in sp THEN 0
    ELSE IF "bottom" \in sp \/ "south" \in sp THEN -90
    ELSE IF "left" \in sp \/ "west" \in sp THEN -180
    ELSE 90

Direction(cw) == IF cw THEN "clock" ELSE "anticlock"

\* the start shifted in both directions
ShiftedStartBothWays(sp, gap, cw) ==
    RSub(R(NominalStart(sp)), RDiv(gap, R(2)))

\* start_position -= gap_size / 2 if clockwise else 0
ShiftedStart(sp, gap, cw) ==
    RSub(R(NominalStart(sp)), IF cw THEN RDiv(gap, R(2)) ELSE R(0))

(***************************************************************************)
(* Radii.  Python list indices are 0-based and a negative index counts     *)
(* from the end; an index outside -n..n-1 raises IndexError.               *)
(***************************************************************************)
IndexInRange(idx, n) == -n <= idx /\ idx < n
ListPos(idx, n) == (IF idx < 0 THEN idx + n ELSE idx) + 1

RECURSIVE ShiftAll(_, _)
\* for seg in offset_segments: self.inner_radii[seg] += offset_shift_amount
\* (stops at the first index that is out of range)
ShiftAll(radii, idxs) ==
    IF idxs = <<>> \/ ~IndexInRange(Head(idxs), Len(radii)) THEN radii
    ELSE ShiftAll([radii EXCEPT ![ListPos(Head(idxs), Len(radii))] =
                       RAdd(@, offset_shift_amount)],
                  Tail(idxs))

OffsetRaises(off, n) ==
    off.kind # "none" /\ \E k \in DOMAIN off.idx : ~IndexInRange(off.idx[k], n)

InnerRadii(n, off) ==
    ShiftAll([i \in 1..n |-> radius], IF off.kind = "none" THEN <<>> ELSE off.idx)

OuterRadii(inner) == [i \in DOMAIN inner |-> RAdd(inner[i], segment_width)]

(***************************************************************************)
(* Colours.  A colour argument is [kind, value]: kind "str" with a string, *)
(* kind "list" with a sequence of colours, kind "none" for None, and kind  *)
(* "other" for any other object.                                           *)
(***************************************************************************)
Category10_10 == <<"#1f77b4", "#ff7f0e", "#2ca02c", "#d62728", "#9467bd",
                   "#8c564b", "#e377c2", "#7f7f7f", "#bcbd22", "#17becf">>

\* bokeh.palettes.all_palettes, the one palette used here: a palette has an
\* entry for 3 to 10 colours and no entry for fewer
all_palettes ==
    [name \in {"Category10"} |->
        [n \in 3..Len(Category10_10) |-> SubSeq(Category10_10, 1, n)]]

PaletteRaises(name, n) == n \notin DOMAIN all_palettes[name]

\* the exception of lines 92-105, "" for none
FaceColorsRaise(arg, n) ==
    IF arg.kind = "str"
    THEN IF arg.value \in DOMAIN all_palettes /\ PaletteRaises(arg.value, n)
         THEN "KeyError" ELSE ""
    ELSE IF arg.kind = "list"
    THEN IF Len(arg.value) = n THEN "" ELSE "IndexError"
    ELSE IF PaletteRaises("Category10", n) THEN "KeyError" ELSE ""

\* self.segment_face_colors of lines 92-105, when nothing is raised
FaceColors(arg, n) ==
    IF arg.kind = "str"
    THEN IF arg.value \in DOMAIN all_palettes THEN all_palettes[arg.value][n]
         ELSE [i \in 1..n |-> arg.value]
    ELSE IF arg.kind = "list" THEN arg.value
    ELSE all_palettes["Category10"][n]

\* the exception of lines 107-114, "" for none
OutlineColorsRaise(arg) ==
    IF arg.kind \in {"none", "str", "list"} THEN "" ELSE "TypeError"

\* self.segment_outline_colors of lines 107-114: a list is taken as it is,
\* whatever its length
OutlineColors(arg, n) ==
    IF arg.kind = "none" THEN [i \in 1..n |-> "transparent"]
    ELSE IF arg.kind = "str" THEN [i \in 1..n |-> arg.value]
    ELSE arg.value

\* [c for c in colors for _ in range(k)]
RepeatEach(cs, k) ==
    [j \in 1..(Len(cs) * k) |-> cs[((j - 1) \div k) + 1]]

(***************************************************************************)
(* Create_Segments.                                                        *)
(***************************************************************************)
\* the lengths walked anticlockwise whatever the direction
SegmentDeltasUnsigned(lengths, cw) == lengths

\* segment_deltas of lines 188-191
SegmentDeltas(lengths, cw) ==
    [i \in DOMAIN lengths |-> IF cw THEN RNeg(lengths[i]) ELSE lengths[i]]

\* the gap walked anticlockwise whatever the direction
GapDeltaUnsigned(gap, cw) == gap

GapDelta(gap, cw) == IF cw THEN RNeg(gap) ELSE gap

RECURSIVE WalkBorders(_, _, _)
\* the loop of lines 200-204, and the loop of lines 258-266: one
\* [start, end] per segment, the gap skipped after each
WalkBorders(deltas, gap_delta, cur) ==
    IF deltas = <<>> THEN <<>>
    ELSE LET stop == RAdd(cur, Head(deltas))
         IN  <<[start |-> cur, end |-> stop]>>
             \o WalkBorders(Tail(deltas), gap_delta, RAdd(stop, gap_delta))

RECURSIVE MicroSegments(_, _, _, _, _)
\* micro-segments of twice the step, each over the one that follows it
MicroSegmentsOverlapping(k, cur, step, alpha, alpha_delta) ==
    IF k = 0 THEN <<>>
    ELSE <<[start |-> cur, end |-> RAdd(cur, RAdd(step, step)), alpha |-> alpha]>>
         \o MicroSegments(k - 1, RAdd(cur, step), step, RSub(alpha, alpha_delta), alpha_delta)

\* the inner loop of lines 240-246: k micro-segments from cur, each of
\* length step; alpha goes down by alpha_delta after each
MicroSegments(k, cur, step, alpha, alpha_delta) ==
    IF k = 0 THEN <<>>
    ELSE <<[start |-> cur, end |-> RAdd(cur, step), alpha |-> alpha]>>
         \o MicroSegments(k - 1, RAdd(cur, step), step, RSub(alpha, alpha_delta), alpha_delta)

\* one micro-segment too many counted in the division
AlphaSegmentDeltaFencePost(segment_delta, fade_steps) ==
    RDiv(segment_delta, R(fade_steps + 1))

\* alpha_segment_delta of line 234
AlphaSegmentDelta(segment_delta, fade_steps) == RDiv(segment_delta, R(fade_steps))

RECURSIVE WalkFade(_, _, _, _, _)
\* the loop of lines 233-249: per segment its start, its micro-segments and
\* the position reached after them
WalkFade(deltas, gap_delta, cur, fade_steps, min_alpha) ==
    IF deltas = <<>> THEN <<>>
    ELSE LET micro == MicroSegments(fade_steps, cur,
                                 AlphaSegmentDelta(Head(deltas), fade_steps), R(1),
                                 RDiv(RSub(R(1), min_alpha), R(fade_steps)))
             stop == IF micro = <<>> THEN cur ELSE micro[Len(micro)].end
         IN  <<[start |-> cur, end |-> stop, micro |-> micro]>>
             \o WalkFade(Tail(deltas), gap_delta, RAdd(stop, gap_delta), fade_steps, min_alpha)

RECURSIVE Flatten(_)
Flatten(ss) == IF ss = <<>> THEN <<>> ELSE Head(ss) \o Flatten(Tail(ss))

(***************************************************************************)
(* Rank and Position columns.                                              *)
(***************************************************************************)
\* rank(method = "min"): rows of equal count share the smallest of their ranks
RankMin(df, i) ==
    Cardinality({j \in DOMAIN df : df[j].Clustered > df[i].Clustered})

\* Series.rank(method = "first", ascending = False).astype(int) - 1: one plus
\* the rows of larger count, plus the earlier rows of equal count, minus one
RankFirst(df, i) ==
    Cardinality({j \in DOMAIN df : df[j].Clustered > df[i].Clustered})
    + Cardinality({j \in DOMAIN df : j < i /\ df[j].Clustered = df[i].Clustered})

\* the position of the 1-based rank
PositionOfRankFromOne(rank, n) == RDiv(R(rank + 1), R(n))

\* the Rank / len(df) of line 126
PositionOf(rank, n) == RDiv(R(rank), R(n))

WithRanks(df) ==
    [i \in DOMAIN df |->
        [CloneID |-> df[i].CloneID, Clustered |-> df[i].Clustered,
         Rank |-> RankFirst(df, i),
         Position |-> PositionOf(RankFirst(df, i), Len(df))]]

(***************************************************************************)
(* Links.  Samples are numbered from 1 in the model (from 0 in the source).*)
(***************************************************************************)
RECURSIVE PairsFrom(_, _, _)
PairsFrom(i, j, n) ==
    IF i >= n THEN <<>>
    ELSE IF j > n THEN PairsFrom(i + 1, i + 2, n)
    ELSE <<<<i, j>>>> \o PairsFrom(i, j + 1, n)

\* list(combinations(range(n), 2)), in the order itertools yields them
Combinations2(n) == PairsFrom(1, 2, n)

RowWithId(df, id) == df[CHOOSE k \in DOMAIN df : df[k].CloneID = id]

\* sample_df1.join(sample_df2, how = "inner", lsuffix = "1", rsuffix = "2"):
\* the rows of df1 whose clone is in df2, in the order of df1
InnerJoin(df1, df2) ==
    LET keep == SelectSeq(df1, LAMBDA r : r.CloneID \in Ids(df2))
    IN  [k \in DOMAIN keep |->
            [CloneID |-> keep[k].CloneID,
             Position1 |-> keep[k].Position,
             Position2 |-> RowWithId(df2, keep[k].CloneID).Position]]

\* the base radius, an offset of the sample forgotten
inner_rad_base(radii, idx) == radius

\* inner_rad1 and inner_rad2 of lines 147-148: self.inner_radii[idx]
inner_rad(radii, idx) == radii[idx]

\* the segment start added whatever the direction
SegStartAdded(start, dir) == start

\* seg_start of lines 142-143
SegStart(start, dir) == IF dir = "clock" THEN RNeg(start) ELSE start

\* the position taken along the full circle, not along the segment
LinkAngleOfFullCircle(position, length, start, dir) ==
    RAdd(RMul(position, R(FullCircle)), SegStart(start, dir))

\* pos of lines 144-145: the angle handed to Angle_to_XY
LinkAngle(position, length, start, dir) ==
    RAdd(RMul(position, length), SegStart(start, dir))

(***************************************************************************)
(* Angle_to_XY, lines 287-320.  x = radius * sin(a) + offset[0] and        *)
(* y = radius * cos(a) + offset[1] are the coordinates of the point at     *)
(* distance radius from offset in the direction a, measured clockwise from *)
(* the positive y axis; that is the direction 90 - a degrees measured      *)
(* anticlockwise from the positive x axis, since sin(a) = cos(90 - a) and  *)
(* cos(a) = sin(90 - a).  A point is kept as its centre, its radius and    *)
(* that direction theta in [0, 360), of which (x, y) is                    *)
(* (radius * cos(theta) + offset[0], radius * sin(theta) + offset[1]); no  *)
(* sine is computed.  An angle in radians is given in units of pi.         *)
(***************************************************************************)
\* the default of offset, and the control point of the links
center == <<<<1, 2>>, <<1, 2>>>>

\* numpy.deg2rad(angles) when angles_in_degrees, angles otherwise: the angle
\* in degrees that the sine and the cosine are taken of
AngleInDegrees(angle, angles_in_degrees) ==
    IF angles_in_degrees THEN angle ELSE RMul(angle, R(180))

\* the point (radius * sin(a) + offset[0], radius * cos(a) + offset[1])
PointAt(angle, rad, angles_in_degrees, offset) ==
    [center |-> offset, radius |-> rad,
     theta |-> RMod(RSub(R(90), AngleInDegrees(angle, angles_in_degrees)),
                    FullCircle)]

\* angles is [iter, value]: the angles as a sequence and whether they were
\* given as an iterable; one angle that is not in an iterable gives one point
Angle_to_XY(angles, rad, angles_in_degrees, offset) ==
    IF angles.iter
    THEN [k \in DOMAIN angles.value |->
             PointAt(angles.value[k], rad, angles_in_degrees, offset)]
    ELSE PointAt(angles.value[1], rad, angles_in_degrees, offset)

OneAngle(a) == [iter |-> FALSE, value |-> <<a>>]
ManyAngles(as) == [iter |-> TRUE, value |-> as]

(***************************************************************************)
(* Initial states: the arguments of one constructor call, nothing built.   *)
(***************************************************************************)
Unset == <<>>

NothingBuilt ==
    /\ samples = Unset /\ comparison_dfs = Unset
    /\ segment_lengths = Unset /\ start_position = Unset /\ direction = ""
    /\ inner_radii = Unset /\ outer_radii = Unset
    /\ segment_starts = Unset /\ segment_ends = Unset
    /\ wedge_starts = Unset /\ wedge_ends = Unset /\ segment_alphas = Unset
    /\ borders = Unset /\ source_data_dict = Unset
    /\ self_segment_face_colors = Unset /\ self_segment_outline_colors = Unset
    /\ links = <<>> /\ next_pair = 0
    /\ pc = "gather" /\ err = ""

\* the first call of the constructor, sort_values not yet used
FirstCall == sorter = <<>> /\ run = 1 /\ first_run = Unset

\* the constructor is called by the caller, not by Repertoire_Dashboard, and
\* Angle_to_XY by the constructor only
CalledDirectly ==
    /\ mapper_call = Unset /\ xy_coords = Unset
    /\ dashboard_call = Unset /\ comparison_df = Unset

ColorName(c) == [kind |-> "str", value |-> c]
ColorList(cs) == [kind |-> "list", value |-> cs]
NoColor == [kind |-> "none", value |-> ""]

Min(a, b) == IF a < b THEN a ELSE b

RECURSIVE TableSeqs(_, _)
\* the sequences of n clone tables that hold at most budget rows in all
TableSeqs(n, budget) ==
    IF n = 0 THEN {<<>>}
    ELSE UNION {{<<t>> \o rest : rest \in TableSeqs(n - 1, budget - Len(t))} :
                  t \in Tables(Min(budget, Len(IdOrder)))}

\* Clone identifiers are only ever compared for equality, so one input stands
\* for every renaming of it: the identifiers are named in the order in which
\* the input first mentions them.
NamedInOrder(dfs) ==
    LET ids == Flatten([i \in DOMAIN dfs |-> [k \in DOMAIN dfs[i] |-> dfs[i][k].CloneID]])
        seen == FirstSeen(ids, {})
    IN  seen = SubSeq(IdOrder, 1, Len(seen))

AsDict(dfs) ==
    [form |-> "dict", rows |-> <<>>,
     items |-> [i \in DOMAIN dfs |-> [name |-> i, df |-> dfs[i]]]]

\* the dicts of 1..max_samples samples that hold at most max_rows rows in all
DictInputs(max_samples, max_rows) ==
    UNION {{AsDict(dfs) : dfs \in {d \in TableSeqs(n, max_rows) : NamedInOrder(d)}} :
             n \in 1..max_samples}

\* Three samples are the fewest with which a clone can be in two or in three
\* samples and a pair of samples can follow a pair that shares no clone.
LinkedSamples == <<1, 2, 3>>

\* the table of k clones c1..ck, of counts k..1
PlainTable(k) == [i \in 1..k |-> [CloneID |-> IdOrder[i], Clustered |-> k + 1 - i]]

\* the same, for dicts that differ in the sizes of their samples only
SizedInputs(max_samples, max_rows) ==
    UNION {{AsDict([i \in 1..n |-> PlainTable(sz[i])]) :
              sz \in {z \in [1..n -> 0..Len(IdOrder)] : Sum(z) <= max_rows}} :
             n \in 1..max_samples}

\* the dict with the keys names[1], names[2], ... in this order
AsNamedDict(dfs, names) ==
    [form |-> "dict", rows |-> <<>>,
     items |-> [i \in DOMAIN dfs |-> [name |-> names[i], df |-> dfs[i]]]]

\* The same samples as one frame with a sample column, as Repertoire_Dashboard
\* builds it from a dict: the tables concatenated in the order of the keys.
AsFrame(dfs, names) ==
    [form |-> "frame", items |-> <<>>,
     rows |-> Flatten([i \in DOMAIN dfs |->
                 [k \in DOMAIN dfs[i] |->
                     [CloneID |-> dfs[i][k].CloneID, Clustered |-> dfs[i][k].Clustered,
                      Sample |-> names[i]]]])]

\* the orders in which a caller may name one or two samples
SampleNameOrders == {<<1>>, <<1, 2>>, <<2, 1>>}

\* samples in both forms, holding at most max_rows rows in all
FormInputs(name_orders, max_rows) ==
    UNION {UNION {{AsNamedDict(dfs, names), AsFrame(dfs, names)} :
                    dfs \in {d \in TableSeqs(Len(names), max_rows) : NamedInOrder(d)}} :
             names \in name_orders}

NoOffset == [kind |-> "none", idx |-> <<>>]

Gaps == {R(0), R(10), <<45, 2>>}
StartPositions == {{"top"}, {"right"}, {"bottom"}, {"left"}, {}, {"east"}, {"bottom", "left"}}

\* clone tables of every shape for up to three samples, under the layout
\* options that decide link angles; one face colour for all segments, so
\* that the palette of line 94 does not limit the number of samples
Init ==
    /\ clone_dfs \in DictInputs(Len(LinkedSamples), MaxRows)
    /\ top_clones = <<>>
    /\ normalize_segments \in BOOLEAN
    /\ gap_size = R(10)
    /\ start_pos = {"top"}
    /\ clockwise \in BOOLEAN
    /\ offset_segments = NoOffset
    /\ fade_segments = TRUE
    /\ segment_face_colors = ColorName("black")
    /\ segment_outline_colors = NoColor
    /\ NothingBuilt /\ FirstCall /\ CalledDirectly

\* samples of every size, under every layout option of the segments
InitGeom ==
    /\ clone_dfs \in SizedInputs(MaxSamples, MaxRows)
    /\ top_clones = <<>>
    /\ normalize_segments \in BOOLEAN
    /\ gap_size \in Gaps
    /\ start_pos \in StartPositions
    /\ clockwise \in BOOLEAN
    /\ offset_segments = NoOffset
    /\ fade_segments \in BOOLEAN
    /\ segment_face_colors = ColorName("black")
    /\ segment_outline_colors = NoColor
    /\ NothingBuilt /\ FirstCall /\ CalledDirectly

\* the same samples as a dict and as one frame, with and without top_clones
InitInput ==
    /\ clone_dfs \in FormInputs(SampleNameOrders, MaxRows)
    /\ top_clones \in {<<>>, <<1>>, <<2>>}
    /\ normalize_segments \in BOOLEAN
    /\ gap_size = <<45, 2>>
    /\ start_pos = {"top"}
    /\ clockwise = TRUE
    /\ offset_segments = NoOffset
    /\ fade_segments = FALSE
    /\ segment_face_colors = ColorName("black")
    /\ segment_outline_colors = NoColor
    /\ NothingBuilt /\ FirstCall /\ CalledDirectly

\* a palette name, a colour name, lists of two and of three colours, and an
\* object that is neither a string nor iterable
FaceColorChoices ==
    {ColorName("Category10"), ColorName("black"),
     ColorList(<<"red", "blue">>), ColorList(<<"red", "blue", "green">>),
     [kind |-> "other", value |-> ""]}

OutlineColorChoices ==
    {NoColor, ColorName("grey"),
     ColorList(<<"red", "blue">>), ColorList(<<"red", "blue", "green">>),
     [kind |-> "other", value |-> ""]}

\* samples of every size under every kind of colour argument
InitConfig ==
    /\ clone_dfs \in SizedInputs(MaxSamples, MaxRows)
    /\ top_clones = <<>>
    /\ normalize_segments \in BOOLEAN
    /\ gap_size = R(10)
    /\ start_pos = {"top"}
    /\ clockwise = TRUE
    /\ offset_segments = NoOffset
    /\ fade_segments \in BOOLEAN
    /\ segment_face_colors \in FaceColorChoices
    /\ segment_outline_colors \in OutlineColorChoices
    /\ NothingBuilt /\ FirstCall /\ CalledDirectly

\* clone tables of every shape for up to three samples, under the default
\* colours, for a constructor that is called twice
InitTwice ==
    /\ clone_dfs \in DictInputs(Len(LinkedSamples), MaxRows)
    /\ top_clones = <<>>
    /\ normalize_segments \in BOOLEAN
    /\ gap_size = R(10)
    /\ start_pos = {"top"}
    /\ clockwise = TRUE
    /\ offset_segments = NoOffset
    /\ fade_segments = TRUE
    /\ segment_face_colors = ColorName("Category10")
    /\ segment_outline_colors = NoColor
    /\ NothingBuilt /\ FirstCall /\ CalledDirectly

\* no offset, one index (0-based, negative from the end, or out of range) and
\* lists of indices: empty, of one index, of two, of one index named twice,
\* of one sample named by both of its indices, and with an index out of range
OffsetChoices ==
    {NoOffset}
    \cup {[kind |-> "int", idx |-> <<i>>] : i \in {0, -1, MaxSamples}}
    \cup {[kind |-> "list", idx |-> l] :
             l \in {<<>>, <<0>>, <<0, 1>>, <<0, 0>>, <<0, -1>>, <<0, MaxSamples>>}}

\* samples of every size that share clones, under every kind of offset
InitOffset ==
    /\ clone_dfs \in SizedInputs(MaxSamples, MaxRows)
    /\ top_clones = <<>>
    /\ normalize_segments \in BOOLEAN
    /\ gap_size = R(10)
    /\ start_pos = {"top"}
    /\ clockwise = TRUE
    /\ offset_segments \in OffsetChoices
    /\ fade_segments = FALSE
    /\ segment_face_colors = ColorName("black")
    /\ segment_outline_colors = NoColor
    /\ NothingBuilt /\ FirstCall /\ CalledDirectly

(***************************************************************************)
(* The steps of the constructor.                                           *)
(***************************************************************************)
RECURSIVE SeqProduct(_)
\* the sequences that take their i-th element from the i-th set
SeqProduct(sets) ==
    IF sets = <<>> THEN {<<>>}
    ELSE {<<x>> \o rest : x \in Head(sets), rest \in SeqProduct(Tail(sets))}

\* lines 22-47
\* sort_values is one algorithm: a table it has met before comes out as it
\* did before, and a table it meets for the first time in any of the orders
\* of SortValues
GatherSamples ==
    /\ pc = "gather"
    /\ samples' = InputNames(clone_dfs)
    /\ \E tables \in {InputTables(clone_dfs)} :
       \E fresh \in {FirstSeen(tables, DOMAIN sorter)} :
       \E choice \in SeqProduct([k \in DOMAIN fresh |-> SortValues(fresh[k])]) :
       \E sorted_as \in {[t \in (DOMAIN sorter) \cup Range(fresh) |->
                            IF t \in DOMAIN sorter THEN sorter[t]
                            ELSE choice[CHOOSE k \in DOMAIN fresh : fresh[k] = t]]} :
       \E sorted_dfs \in {[i \in DOMAIN tables |-> sorted_as[tables[i]]]} :
           /\ sorter' = sorted_as
           /\ comparison_dfs' = [i \in DOMAIN tables |-> TrimTop(sorted_dfs[i], top_clones)]
           /\ clone_dfs' = CallerAfterSort(clone_dfs, sorted_dfs)
    /\ pc' = "lengths"
    /\ UNCHANGED <<args, geometry, colors, segments, linking, err, calls, mapper,
                   dashboard>>

\* lines 52-60
ComputeSegmentLengths ==
    /\ pc = "lengths"
    /\ LET counts == sample_clone_counts(comparison_dfs)
       IN  IF LengthsDivideByZero(counts, normalize_segments)
           THEN /\ pc' = "error" /\ err' = "ZeroDivisionError"
                /\ UNCHANGED segment_lengths
           ELSE /\ segment_lengths' = SegmentLengths(counts, gap_size, normalize_segments)
                /\ pc' = "radii" /\ UNCHANGED err
    /\ UNCHANGED <<inputs, gathered, start_position, direction, inner_radii, outer_radii,
                   colors, segments, linking, sorter, calls, mapper,
                   dashboard>>

\* lines 62-90
SetStartAndRadii ==
    /\ pc = "radii"
    /\ direction' = Direction(clockwise)
    /\ start_position' = ShiftedStart(start_pos, gap_size, clockwise)
    /\ inner_radii' = InnerRadii(total_samples, offset_segments)
    /\ IF OffsetRaises(offset_segments, total_samples)
       THEN /\ pc' = "error" /\ err' = "IndexError"
            /\ UNCHANGED outer_radii
       ELSE /\ outer_radii' = OuterRadii(inner_radii')
            /\ pc' = "colors" /\ UNCHANGED err
    /\ UNCHANGED <<inputs, gathered, segment_lengths, colors, segments, linking, sorter, calls, mapper,
                   dashboard>>

\* lines 92-114
SetColors ==
    /\ pc = "colors"
    /\ IF FaceColorsRaise(segment_face_colors, total_samples) # ""
       THEN /\ pc' = "error"
            /\ err' = FaceColorsRaise(segment_face_colors, total_samples)
            /\ UNCHANGED colors
       ELSE /\ self_segment_face_colors' = FaceColors(segment_face_colors, total_samples)
            /\ IF OutlineColorsRaise(segment_outline_colors) # ""
               THEN /\ pc' = "error"
                    /\ err' = OutlineColorsRaise(segment_outline_colors)
                    /\ UNCHANGED self_segment_outline_colors
               ELSE /\ self_segment_outline_colors' =
                          OutlineColors(segment_outline_colors, total_samples)
                    /\ pc' = "segments" /\ UNCHANGED err
    /\ UNCHANGED <<inputs, gathered, geometry, segments, linking, sorter, calls, mapper,
                   dashboard>>

\* Create_Segments, lines 184-285, as a method that any caller may call
\* (\E over a one-element set binds a value that is computed once)
\* A ColumnDataSource whose columns differ in length (an outline colour list
\* of another length than the segments, fill colours repeated once more than
\* the other columns) makes bokeh warn, not raise.
Create_Segments(start, gap, cw, fade, fade_steps, min_alpha) ==
    \E plain \in {WalkBorders(SegmentDeltas(segment_lengths, cw), GapDelta(gap, cw), start)},
       faded \in {WalkFade(SegmentDeltas(segment_lengths, cw), GapDelta(gap, cw), start,
                           fade_steps, min_alpha)} :
      \E micro \in {Flatten([i \in DOMAIN faded |-> faded[i].micro])} :
        /\ borders' = plain
        /\ IF fade
           THEN /\ segment_starts' = [i \in DOMAIN faded |-> faded[i].start]
                /\ segment_ends' = [i \in DOMAIN faded |-> faded[i].end]
                /\ wedge_starts' = [k \in DOMAIN micro |-> micro[k].start]
                /\ wedge_ends' = [k \in DOMAIN micro |-> micro[k].end]
                /\ segment_alphas' = [k \in DOMAIN micro |-> micro[k].alpha]
                /\ self_segment_face_colors' =
                       RepeatEach(self_segment_face_colors, fade_steps)
                /\ source_data_dict' =
                       [start_angle |-> wedge_starts', end_angle |-> wedge_ends',
                        inner_radius |-> RepeatEach(inner_radii, fade_steps),
                        outer_radius |-> RepeatEach(outer_radii, fade_steps),
                        fill_color |-> self_segment_face_colors',
                        fill_alpha |-> segment_alphas',
                        legend |-> RepeatEach(samples, fade_steps)]
           ELSE /\ segment_starts' = [i \in DOMAIN plain |-> plain[i].start]
                /\ segment_ends' = [i \in DOMAIN plain |-> plain[i].end]
                /\ wedge_starts' = [i \in DOMAIN plain |-> plain[i].start]
                /\ wedge_ends' = [i \in DOMAIN plain |-> plain[i].end]
                /\ segment_alphas' = [i \in 1..total_samples |-> R(1)]
                /\ UNCHANGED self_segment_face_colors
                /\ source_data_dict' =
                       [start_angle |-> wedge_starts', end_angle |-> wedge_ends',
                        inner_radius |-> inner_radii, outer_radius |-> outer_radii,
                        fill_color |-> self_segment_face_colors,
                        fill_alpha |-> segment_alphas',
                        legend |-> samples]

\* line 117: the call of Create_Segments by the constructor
CreateSegments ==
    /\ pc = "segments"
    /\ Create_Segments(start_position, gap_size, clockwise, fade_segments,
                       FadeSteps, min_segment_alpha)
    /\ pc' = "ranks"
    /\ UNCHANGED <<inputs, gathered, geometry, self_segment_outline_colors, linking, err,
                   sorter, calls, mapper, dashboard>>

\* lines 119-126
AssignRanks ==
    /\ pc = "ranks"
    /\ comparison_dfs' = [i \in DOMAIN comparison_dfs |-> WithRanks(comparison_dfs[i])]
    /\ clone_dfs' = CallerAfterAssign(clone_dfs, comparison_dfs')
    /\ next_pair' = 1
    /\ pc' = IF Combinations2(total_samples) = <<>> THEN "done" ELSE "links"
    /\ UNCHANGED <<args, samples, geometry, colors, segments, links, err, sorter, calls, mapper,
                   dashboard>>

\* one iteration of the loop of lines 129-166
LinkPair ==
    /\ pc = "links"
    /\ \E comb \in {Combinations2(total_samples)[next_pair]} :
       \E idx1 \in {comb[1]}, idx2 \in {comb[2]} :
       \E joined_df \in {InnerJoin(comparison_dfs[idx1], comparison_dfs[idx2])} :
       \E pos1 \in {[k \in DOMAIN joined_df |->
                        LinkAngle(joined_df[k].Position1, segment_lengths[idx1],
                                  segment_starts[idx1], direction)]},
          pos2 \in {[k \in DOMAIN joined_df |->
                        LinkAngle(joined_df[k].Position2, segment_lengths[idx2],
                                  segment_starts[idx2], direction)]} :
       \E inner_rad1 \in {inner_rad(inner_radii, idx1)},
          inner_rad2 \in {inner_rad(inner_radii, idx2)} :
           IF joined_df = <<>>
           \* xs1, ys1 = zip(*xy1) with an empty xy1 (line 153)
           THEN /\ pc' = "error" /\ err' = "ValueError"
                /\ UNCHANGED linking
           ELSE /\ links' = Append(links,
                      [idx1 |-> idx1, idx2 |-> idx2,
                       inner_rad1 |-> inner_rad1, inner_rad2 |-> inner_rad2,
                       xy1 |-> Angle_to_XY(ManyAngles(pos1), inner_rad1, TRUE, center),
                       xy2 |-> Angle_to_XY(ManyAngles(pos2), inner_rad2, TRUE, center),
                       rows |-> [k \in DOMAIN joined_df |->
                          [CloneID |-> joined_df[k].CloneID,
                           pos1 |-> pos1[k], pos2 |-> pos2[k]]]])
                /\ next_pair' = next_pair + 1
                /\ pc' = IF next_pair = Len(Combinations2(total_samples))
                         THEN "done" ELSE "links"
                /\ UNCHANGED err
    /\ UNCHANGED <<inputs, gathered, geometry, colors, segments, sorter, calls, mapper,
                   dashboard>>

Next ==
    \/ GatherSamples
    \/ ComputeSegmentLengths
    \/ SetStartAndRadii
    \/ SetColors
    \/ CreateSegments
    \/ AssignRanks
    \/ LinkPair

Spec == Init /\ [][Next]_vars

SpecGeom == InitGeom /\ [][Next]_vars

SpecInput == InitInput /\ [][Next]_vars

SpecConfig == InitConfig /\ [][Next]_vars

SpecOffset == InitOffset /\ [][Next]_vars

(***************************************************************************)
(* A second call of the constructor by the same caller, with the same      *)
(* arguments, once the first call has returned or raised.                  *)
(***************************************************************************)
\* what a call of the constructor built
Built ==
    [samples |-> samples, comparison_dfs |-> comparison_dfs,
     segment_lengths |-> segment_lengths,
     segment_starts |-> segment_starts, segment_ends |-> segment_ends,
     inner_radii |-> inner_radii, outer_radii |-> outer_radii,
     source_data_dict |-> source_data_dict,
     links |-> links, pc |-> pc, err |-> err]

ConstructAgain ==
    /\ run = 1 /\ pc \in {"done", "error"}
    /\ first_run' = Built
    /\ run' = 2
    \* a new object, nothing built (as in NothingBuilt)
    /\ samples' = Unset /\ comparison_dfs' = Unset
    /\ segment_lengths' = Unset /\ start_position' = Unset /\ direction' = ""
    /\ inner_radii' = Unset /\ outer_radii' = Unset
    /\ segment_starts' = Unset /\ segment_ends' = Unset
    /\ wedge_starts' = Unset /\ wedge_ends' = Unset /\ segment_alphas' = Unset
    /\ borders' = Unset /\ source_data_dict' = Unset
    /\ self_segment_face_colors' = Unset /\ self_segment_outline_colors' = Unset
    /\ links' = <<>> /\ next_pair' = 0
    /\ pc' = "gather" /\ err' = ""
    /\ UNCHANGED <<inputs, sorter, mapper, dashboard>>

NextTwice == Next \/ ConstructAgain

SpecTwice == InitTwice /\ [][NextTwice]_vars

(***************************************************************************)
(* A second call of Create_Segments by the caller, on the object that the  *)
(* constructor has built, with the arguments that the constructor gave.    *)
(***************************************************************************)
\* samples of every size, with and without fading, with one colour for all
\* segments and with a colour for each
InitAgain ==
    /\ clone_dfs \in SizedInputs(MaxSamples, MaxRows)
    /\ top_clones = <<>>
    /\ normalize_segments \in BOOLEAN
    /\ gap_size = R(10)
    /\ start_pos = {"top"}
    /\ clockwise \in BOOLEAN
    /\ offset_segments = NoOffset
    /\ fade_segments \in BOOLEAN
    /\ segment_face_colors \in {ColorName("black"), ColorName("Category10")}
    /\ segment_outline_colors = NoColor
    /\ NothingBuilt /\ FirstCall /\ CalledDirectly

CreateSegmentsAgain ==
    /\ pc = "done" /\ run = 1 /\ first_run = Unset
    /\ first_run' = Built
    /\ Create_Segments(start_position, gap_size, clockwise, fade_segments,
                       FadeSteps, min_segment_alpha)
    /\ pc' = "again"
    /\ UNCHANGED <<inputs, gathered, geometry, self_segment_outline_colors, linking, err,
                   sorter, run, mapper, dashboard>>

NextAgain == Next \/ CreateSegmentsAgain

SpecAgain == InitAgain /\ [][NextAgain]_vars

(***************************************************************************)
(* A call of Angle_to_XY by itself, on an object that was not built.       *)
(***************************************************************************)
\* the nominal start positions and other angles in degrees, and angles in
\* units of pi
MapperAngles ==
    {R(a) : a \in {NominalStart({sp}) : sp \in {"top", "right", "bottom", "left"}}}
    \cup {R(180), R(270), R(-270), R(360), R(85), <<1, 2>>, <<-1, 2>>}

MapperRadii == {radius, RAdd(radius, offset_shift_amount)}

\* one angle, or an iterable of up to two angles
MapperCalls ==
    [angles : {OneAngle(a) : a \in MapperAngles}
              \cup {ManyAngles(as) : as \in SeqsUpTo(MapperAngles, 2)},
     radius : MapperRadii, angles_in_degrees : BOOLEAN, offset : {center}]

InitMapper ==
    /\ mapper_call \in MapperCalls
    /\ xy_coords = Unset
    /\ pc = "mapper" /\ err = ""
    /\ clone_dfs = Unset /\ top_clones = Unset /\ normalize_segments = TRUE
    /\ gap_size = R(10) /\ start_pos = {"top"} /\ clockwise = TRUE
    /\ offset_segments = NoOffset /\ fade_segments = TRUE
    /\ segment_face_colors = ColorName("Category10")
    /\ segment_outline_colors = NoColor
    /\ samples = Unset /\ comparison_dfs = Unset
    /\ segment_lengths = Unset /\ start_position = Unset /\ direction = ""
    /\ inner_radii = Unset /\ outer_radii = Unset
    /\ segment_starts = Unset /\ segment_ends = Unset
    /\ wedge_starts = Unset /\ wedge_ends = Unset /\ segment_alphas = Unset
    /\ borders = Unset /\ source_data_dict = Unset
    /\ self_segment_face_colors = Unset /\ self_segment_outline_colors = Unset
    /\ links = <<>> /\ next_pair = 0
    /\ dashboard_call = Unset /\ comparison_df = Unset
    /\ FirstCall

\* lines 287-320
MapAngles ==
    /\ pc = "mapper"
    /\ xy_coords' = Angle_to_XY(mapper_call.angles, mapper_call.radius,
                                mapper_call.angles_in_degrees, mapper_call.offset)
    /\ pc' = "done"
    /\ UNCHANGED <<inputs, gathered, geometry, colors, segments, linking, err, sorter,
                   calls, mapper_call, dashboard>>

SpecMapper == InitMapper /\ [][MapAngles]_vars

(***************************************************************************)
(* Repertoire_Dashboard (Repertoire_Dashboard.py): what it does with its   *)
(* arguments clone_dfs and sample_col up to its call of the constructor.   *)
(* sample_col is <<>> for None and <<name>> for a column name; the sample  *)
(* column of the frames of the model is "Sample".  The plots that it       *)
(* builds before the constructor (lines 97-154) are not modelled: they are *)
(* taken to return.                                                        *)
(***************************************************************************)
cyrcos_top_clones == 1000

\* the frame that holds the samples of a dict
FrameOf(d) ==
    AsFrame([i \in DOMAIN d.items |-> d.items[i].df],
            [i \in DOMAIN d.items |-> d.items[i].name])

\* an object that is neither a dict nor a DataFrame
NoTables == [form |-> "other", items |-> <<>>, rows |-> <<>>]

\* samples as a dict and as one frame with the column "Sample", holding at
\* most max_rows rows in all
DashboardInputs(max_samples, max_rows) ==
    UNION {{d, FrameOf(d)} : d \in DictInputs(max_samples, max_rows)} \cup {NoTables}

SampleCols == {<<>>, <<"Sample">>, <<"Donor">>}

\* the other arguments of the constructor are left to their defaults
InitDashboard ==
    /\ dashboard_call \in [clone_dfs : DashboardInputs(Len(LinkedSamples), Len(IdOrder)),
                            sample_col : SampleCols]
    /\ comparison_df = Unset
    /\ pc = "dashboard" /\ err = ""
    /\ clone_dfs = Unset /\ top_clones = Unset /\ normalize_segments = TRUE
    /\ gap_size = R(10) /\ start_pos = {"top"} /\ clockwise = TRUE
    /\ offset_segments = NoOffset /\ fade_segments = TRUE
    /\ segment_face_colors = ColorName("Category10")
    /\ segment_outline_colors = NoColor
    /\ samples = Unset /\ comparison_dfs = Unset
    /\ segment_lengths = Unset /\ start_position = Unset /\ direction = ""
    /\ inner_radii = Unset /\ outer_radii = Unset
    /\ segment_starts = Unset /\ segment_ends = Unset
    /\ wedge_starts = Unset /\ wedge_ends = Unset /\ segment_alphas = Unset
    /\ borders = Unset /\ source_data_dict = Unset
    /\ self_segment_face_colors = Unset /\ self_segment_outline_colors = Unset
    /\ links = <<>> /\ next_pair = 0
    /\ mapper_call = Unset /\ xy_coords = Unset
    /\ FirstCall

\* the exception of lines 78-95, "" for none: a frame without a column name
\* (line 95) or without the column that is named (line 93), and comparison_df
\* left unbound by an object that is neither a dict nor a frame (line 101)
ComparisonFrameRaises(call) ==
    IF call.clone_dfs.form = "frame" /\ call.sample_col # <<"Sample">> THEN "KeyError"
    ELSE IF call.clone_dfs.form = "other" THEN "UnboundLocalError"
    ELSE ""

\* comparison_df of lines 88 and 93
ComparisonFrame(call) ==
    IF call.clone_dfs.form = "dict" THEN FrameOf(call.clone_dfs) ELSE call.clone_dfs

\* lines 78-95
BuildComparisonFrame ==
    /\ pc = "dashboard"
    /\ IF ComparisonFrameRaises(dashboard_call) # ""
       THEN /\ pc' = "error" /\ err' = ComparisonFrameRaises(dashboard_call)
            /\ UNCHANGED comparison_df
       ELSE /\ comparison_df' = ComparisonFrame(dashboard_call)
            /\ pc' = "plots" /\ UNCHANGED err
    /\ UNCHANGED <<inputs, gathered, geometry, colors, segments, linking, sorter, calls,
                   mapper, dashboard_call>>

\* lines 156-158: the call of the constructor
CallConstructor ==
    /\ pc = "plots"
    /\ clone_dfs' = comparison_df
    /\ top_clones' = <<cyrcos_top_clones>>
    /\ pc' = "gather"
    /\ UNCHANGED <<normalize_segments, gap_size, start_pos, clockwise, offset_segments,
                   fade_segments, segment_face_colors, segment_outline_colors,
                   gathered, geometry, colors, segments, linking, err, sorter, calls,
                   mapper, dashboard>>

NextDashboard == BuildComparisonFrame \/ CallConstructor \/ Next

SpecDashboard == InitDashboard /\ [][NextDashboard]_vars

(***************************************************************************)
(* How far the constructor has come.                                       *)
(***************************************************************************)
LengthsComputed ==
    \/ pc \in {"radii", "colors", "segments", "ranks", "links", "done"}
    \/ pc = "error" /\ err # "ZeroDivisionError"

SegmentsCreated ==
    \/ pc \in {"ranks", "links", "done"}
    \/ pc = "error" /\ err = "ValueError"

RanksAssigned ==
    \/ pc \in {"links", "done"}
    \/ pc = "error" /\ err = "ValueError"

\* link building was entered and the call has returned or raised
LinkingEnded ==
    \/ pc = "done"
    \/ pc = "error" /\ err = "ValueError"

(***************************************************************************)
(* Segment lengths and arcs (SpecGeom).                                    *)
(***************************************************************************)
\* C1: once the segment lengths are computed, their sum plus
\* total_samples * gap_size is exactly 360 degrees, for every list of sample
\* sizes, every gap size and both values of normalize_segments.
C1_LengthsAndGapsFillCircle ==
    LengthsComputed =>
        RAdd(RSum(segment_lengths), RMul(R(total_samples), gap_size)) = R(FullCircle)

C1_Witness ==
    /\ LengthsComputed /\ ~normalize_segments /\ total_samples = 3
    /\ gap_size = <<45, 2>>
    /\ segment_lengths[1] # segment_lengths[2]
    /\ ~RIsZero(segment_lengths[3])

RMax(a, b) == IF RLt(a, b) THEN b ELSE a
RMin(a, b) == IF RLt(a, b) THEN a ELSE b
ArcLo(i) == RMin(segment_starts[i], segment_ends[i])
ArcHi(i) == RMax(segment_starts[i], segment_ends[i])

\* arcs i and j, one of them turned by a whole number of circles, share an
\* arc of positive length
ArcsOverlap(i, j) ==
    \E turn \in -1..1 :
        LET shift == R(FullCircle * turn)
        IN  RLt(RMax(ArcLo(i), RAdd(ArcLo(j), shift)),
                RMin(ArcHi(i), RAdd(ArcHi(j), shift)))

C6_EmptySampleGetsZeroLength ==
    (~normalize_segments /\ pc \notin {"gather", "lengths"}) =>
        /\ err # "ZeroDivisionError"
        /\ \A i \in 1..total_samples :
               Len(comparison_dfs[i]) = 0 => RIsZero(segment_lengths[i])

\* the shift of line 77
StartShift == IF clockwise THEN RDiv(gap_size, R(2)) ELSE R(0)

\* C11: the first segment starts at the nominal start angle minus
\* gap_size / 2 when clockwise and at the nominal start angle itself when
\* counter-clockwise; with 3 samples, gap_size = 10, normalized, clockwise
\* and start "top" the first arc goes from 85 to -25 degrees.
C11_FirstSegmentStart ==
    (SegmentsCreated /\ total_samples >= 1) =>
        /\ segment_starts[1] = RSub(R(NominalStart(start_pos)), StartShift)
        /\ (/\ total_samples = 3 /\ gap_size = R(10) /\ normalize_segments
            /\ clockwise /\ start_pos = {"top"})
           => (segment_starts[1] = R(85) /\ segment_ends[1] = R(-25))

C11_Witness ==
    /\ SegmentsCreated /\ total_samples = 3 /\ gap_size = R(10) /\ normalize_segments
    /\ clockwise /\ start_pos = {"top"} /\ fade_segments
    /\ segment_starts[1] = R(85)

\* the nominal start angle that line 77 shifted (start_position is set once
\* lines 62-77 have run, which they do for every start_pos without raising)
NominalOfState == RAdd(start_position, StartShift)

\* C13 as stated: "top", "right", "bottom" and "left" give 90, 0, -90 and
\* -180 degrees, and every other string is accepted and gives 90 degrees.
C13_OtherStringsAreTop ==
    start_position # Unset =>
        NominalOfState =
            R(CASE start_pos = {"top"} -> 90
                [] start_pos = {"right"} -> 0
                [] start_pos = {"bottom"} -> -90
                [] start_pos = {"left"} -> -180
                [] OTHER -> 90)

\* C13 amended: the lower-cased string is tested for the substrings "top" or
\* "north" (90 degrees), then "right" or "east" (0), then "bottom" or "south"
\* (-90), then "left" or "west" (-180); a string with none of them is
\* accepted and gives 90 degrees.
C13_StartPosByKeyword ==
    start_position # Unset =>
        LET has(a, b) == a \in start_pos \/ b \in start_pos
        IN  /\ has("top", "north") => NominalOfState = R(90)
            /\ (~has("top", "north") /\ has("right", "east")) => NominalOfState = R(0)
            /\ (~has("top", "north") /\ ~has("right", "east") /\ has("bottom", "south"))
                   => NominalOfState = R(-90)
            /\ (/\ ~has("top", "north") /\ ~has("right", "east")
                /\ ~has("bottom", "south") /\ has("left", "west"))
                   => NominalOfState = R(-180)
            /\ start_pos \cap {"top", "north", "right", "east",
                                "bottom", "south", "left", "west"} = {}
                   => NominalOfState = R(90)

C13_Witness ==
    /\ start_position # Unset /\ start_pos = {"east"} /\ clockwise
    /\ gap_size = R(10) /\ start_position = R(-5)

\* the bounds the loop of lines 258-266 (fade_segments = False) gives
PlainBounds ==
    WalkBorders(SegmentDeltas(segment_lengths, clockwise),
                GapDelta(gap_size, clockwise), start_position)

\* C14: segment_starts and segment_ends are what they are without fading,
\* whether fade_segments is set or not.
C14_FadeKeepsSegmentBounds ==
    SegmentsCreated =>
        /\ segment_starts = [i \in 1..total_samples |-> PlainBounds[i].start]
        /\ segment_ends = [i \in 1..total_samples |-> PlainBounds[i].end]

C14_Witness ==
    /\ SegmentsCreated /\ fade_segments /\ total_samples = 3 /\ ~normalize_segments
    /\ \A i \in 1..3 : ~RIsZero(segment_lengths[i])
    /\ Len(wedge_starts) = 3 * FadeSteps

(***************************************************************************)
(* Links (Spec).                                                           *)
(***************************************************************************)
IdsOf(i) == Ids(comparison_dfs[i])
SamplesWith(id) == {i \in 1..total_samples : id \in IdsOf(i)}
SamplePairs == {c \in (1..total_samples) \X (1..total_samples) : c[1] < c[2]}

\* the link rows drawn for a clone, over all calls of plot.quadratic
LinkCount(id) ==
    Sum([e \in DOMAIN links |->
            Cardinality({k \in DOMAIN links[e].rows : links[e].rows[k].CloneID = id})])

\* the clones that have a link between samples i and j
LinkedIds(i, j) ==
    UNION {{links[e].rows[k].CloneID : k \in DOMAIN links[e].rows} :
             e \in {d \in DOMAIN links : links[d].idx1 = i /\ links[d].idx2 = j}}

PairsProcessedOnce ==
    /\ Len(links) = Len(Combinations2(total_samples))
    /\ \A e \in DOMAIN links :
           <<links[e].idx1, links[e].idx2>> = Combinations2(total_samples)[e]

\* C3: when the constructor has ended, every pair of samples i < j has been
\* processed exactly once and a clone present in exactly k samples has
\* exactly k*(k-1)/2 links.
C3_EveryPairOnceAndLinksPerClone ==
    LinkingEnded =>
        /\ PairsProcessedOnce
        /\ \A id \in CloneIds :
               LET k == Cardinality(SamplesWith(id))
               IN  LinkCount(id) = (k * (k - 1)) \div 2

\* C4: when the constructor has ended, the clones linked between the
\* samples of a pair are exactly the clones present in both of them.
C4_LinkedIdsAreTheIntersection ==
    LinkingEnded =>
        \A c \in SamplePairs : LinkedIds(c[1], c[2]) = IdsOf(c[1]) \cap IdsOf(c[2])

\* C5: a pair of samples that shares no clone (one of them may be empty)
\* adds no link and raises nothing: the constructor does not end in an error.
C5_PairWithoutSharedClonesRaisesNothing ==
    (RanksAssigned /\ \E c \in SamplePairs : IdsOf(c[1]) \cap IdsOf(c[2]) = {}) =>
        pc # "error"

(***************************************************************************)
(* Ranks and positions (Spec).                                             *)
(***************************************************************************)
RanksOf(df) == {df[k].Rank : k \in DOMAIN df}

\* C7: the ranks of the clones of a sample are 0..count-1, each used once,
\* also when counts are equal.
C7_RanksArePermutation ==
    RanksAssigned =>
        \A i \in 1..total_samples :
            /\ RanksOf(comparison_dfs[i]) = 0..(Len(comparison_dfs[i]) - 1)
            /\ \A k, l \in DOMAIN comparison_dfs[i] :
                   comparison_dfs[i][k].Rank = comparison_dfs[i][l].Rank => k = l

C7_Witness ==
    /\ RanksAssigned
    /\ \E i \in 1..total_samples :
          /\ Len(comparison_dfs[i]) = 3
          /\ \A k \in 1..3 : comparison_dfs[i][k].Clustered = 1

\* C8: Position * count = Rank, Position is in [0, 1), and Position does
\* not decrease as Rank increases.
C8_PositionInUnitInterval ==
    RanksAssigned =>
        \A i \in 1..total_samples :
            LET df == comparison_dfs[i]
            IN  \A k \in DOMAIN df :
                    /\ RMul(df[k].Position, R(Len(df))) = R(df[k].Rank)
                    /\ RLe(R(0), df[k].Position) /\ RLt(df[k].Position, R(1))
                    /\ \A l \in DOMAIN df :
                           df[k].Rank <= df[l].Rank => RLe(df[k].Position, df[l].Position)

C8_Witness ==
    /\ RanksAssigned
    /\ \E i \in 1..total_samples :
          /\ Len(comparison_dfs[i]) = 3
          /\ \E k \in 1..3 : comparison_dfs[i][k].Position = <<2, 3>>

\* the place of a clone in the table the caller gave for sample i
CallerIndex(i, id) ==
    CHOOSE k \in DOMAIN clone_dfs.items[i].df : clone_dfs.items[i].df[k].CloneID = id

\* C9: within a sample a larger count has a smaller rank, and of two clones
\* of equal count the one that comes first in the caller's table has the
\* smaller rank.
C9_RankByCountThenCallerOrder ==
    RanksAssigned =>
        \A i \in 1..total_samples :
            LET df == comparison_dfs[i]
            IN  \A a, b \in DOMAIN df :
                    /\ df[a].Clustered > df[b].Clustered => df[a].Rank < df[b].Rank
                    /\ (/\ df[a].Clustered = df[b].Clustered
                        /\ CallerIndex(i, df[a].CloneID) < CallerIndex(i, df[b].CloneID))
                       => df[a].Rank < df[b].Rank

(***************************************************************************)
(* Link angles (Spec).                                                     *)
(***************************************************************************)
PositionIn(i, id) == RowWithId(comparison_dfs[i], id).Position
AlongArc(i, id) == RMul(PositionIn(i, id), segment_lengths[i])

AngleAsStated(i, id) ==
    IF clockwise THEN RSub(segment_starts[i], AlongArc(i, id))
    ELSE RAdd(segment_starts[i], AlongArc(i, id))

AngleNegatedWhenClockwise(i, id) ==
    IF clockwise THEN RSub(AlongArc(i, id), segment_starts[i])
    ELSE RAdd(segment_starts[i], AlongArc(i, id))

\* C10 as stated: the angle handed to Angle_to_XY for an end point in sample
\* i is segment_start_i - position_i * arc_length_i when clockwise and
\* segment_start_i + position_i * arc_length_i when counter-clockwise.
C10_AngleAsStated ==
    \A e \in DOMAIN links :
        \A k \in DOMAIN links[e].rows :
            LET row == links[e].rows[k]
            IN  /\ row.pos1 = AngleAsStated(links[e].idx1, row.CloneID)
                /\ row.pos2 = AngleAsStated(links[e].idx2, row.CloneID)

\* C10 amended: when clockwise the angle handed to Angle_to_XY is
\* position_i * arc_length_i - segment_start_i, the negation of the stated
\* value; when counter-clockwise it is segment_start_i + position_i * arc_length_i.
C10_AngleNegatedWhenClockwise ==
    \A e \in DOMAIN links :
        \A k \in DOMAIN links[e].rows :
            LET row == links[e].rows[k]
            IN  /\ row.pos1 = AngleNegatedWhenClockwise(links[e].idx1, row.CloneID)
                /\ row.pos2 = AngleNegatedWhenClockwise(links[e].idx2, row.CloneID)

C10_Witness ==
    /\ clockwise /\ ~normalize_segments
    /\ \E e \in DOMAIN links :
          \E k \in DOMAIN links[e].rows :
              /\ ~RIsZero(PositionIn(links[e].idx2, links[e].rows[k].CloneID))
              /\ ~RIsZero(segment_starts[links[e].idx2])
              /\ ~RIsZero(links[e].rows[k].pos2)

(***************************************************************************)
(* Input forms and top_clones (SpecInput).                                 *)
(***************************************************************************)
\* the table the caller gave for the i-th sample
CallerTable(i) == InputTables(clone_dfs)[i]

\* the clone count of the i-th sample after top_clones trimmed it
TrimmedCount(i) ==
    IF top_clones = <<>> THEN Len(CallerTable(i))
    ELSE Min(top_clones[1], Len(CallerTable(i)))

\* C12: with available = 360 - gap_size * total_samples, every segment length
\* is available / total_samples when normalize_segments is set and
\* count_i / sum(counts) * available otherwise, count_i being the clone count
\* of the sample after top_clones trimmed it.
C12_SegmentLengthFormula ==
    LengthsComputed =>
        LET n == total_samples
            available == RSub(R(FullCircle), RMul(gap_size, R(n)))
            total == Sum([i \in 1..n |-> TrimmedCount(i)])
        IN  \A i \in 1..n :
                IF normalize_segments
                THEN RMul(segment_lengths[i], R(n)) = available
                ELSE RMul(segment_lengths[i], R(total)) = RMul(R(TrimmedCount(i)), available)

C12_Witness ==
    /\ LengthsComputed /\ ~normalize_segments /\ top_clones = <<1>> /\ total_samples = 2
    /\ Len(CallerTable(1)) = 3 /\ Len(CallerTable(2)) = 1
    /\ segment_lengths[1] = segment_lengths[2]

\* the sample names in the order the input first mentions them
FirstSeenNames ==
    IF clone_dfs.form = "dict"
    THEN [i \in DOMAIN clone_dfs.items |-> clone_dfs.items[i].name]
    ELSE FirstSeen([k \in DOMAIN clone_dfs.rows |-> clone_dfs.rows[k].Sample], {})

\* C17: the sample list is in the iteration order of the dict for a dict,
\* and in the first-seen order of the sample column for a single frame, so
\* that the same data gives the same list in both forms.
C17_SamplesInFirstSeenOrder ==
    pc # "gather" => samples = FirstSeenNames

KeptIds(i) == {comparison_dfs[i][k].CloneID : k \in DOMAIN comparison_dfs[i]}

\* C20: with top_clones = n a sample keeps min(n, size) clones, none of them
\* of a smaller count than a clone it drops; segment lengths, ranks and links
\* are those of the kept clones, and a clone dropped from a sample of a pair
\* has no link for that pair.
C20_TopClonesTrimBeforeLayout ==
    (top_clones # <<>> /\ pc # "gather") =>
        /\ \A i \in 1..total_samples :
              /\ Len(comparison_dfs[i]) = Min(top_clones[1], Len(CallerTable(i)))
              /\ KeptIds(i) \subseteq Ids(CallerTable(i))
              /\ \A k \in DOMAIN comparison_dfs[i], d \in DOMAIN CallerTable(i) :
                     CallerTable(i)[d].CloneID \notin KeptIds(i)
                        => comparison_dfs[i][k].Clustered >= CallerTable(i)[d].Clustered
        /\ (LengthsComputed /\ ~normalize_segments) =>
              \A i \in 1..total_samples :
                  RMul(segment_lengths[i], R(Sum(sample_clone_counts(comparison_dfs))))
                     = RMul(R(Cardinality(KeptIds(i))), total_segment_len(gap_size, total_samples))
        /\ RanksAssigned =>
              \A i \in 1..total_samples :
                  RanksOf(comparison_dfs[i]) = 0..(Cardinality(KeptIds(i)) - 1)
        /\ \A c \in SamplePairs : LinkedIds(c[1], c[2]) \subseteq KeptIds(c[1]) \cap KeptIds(c[2])

C20_Witness ==
    /\ pc = "done" /\ top_clones = <<1>> /\ links # <<>>
    /\ \E id \in Ids(CallerTable(1)) \cap Ids(CallerTable(2)) : id \notin LinkedIds(1, 2)
    /\ Len(CallerTable(1)) = 2 /\ CallerTable(1)[1].Clustered < CallerTable(1)[2].Clustered

(***************************************************************************)
(* Colour arguments (SpecConfig).                                          *)
(***************************************************************************)
ListOfOtherLength(arg) == arg.kind = "list" /\ Len(arg.value) # total_samples

\* a colour list of the caller has another length than the sample list
MismatchedColorList ==
    /\ pc # "gather"
    /\ ListOfOtherLength(segment_face_colors) \/ ListOfOtherLength(segment_outline_colors)

\* lines 92-114 have run, or raised
ColorStepEnded ==
    \/ pc \in {"segments", "ranks", "links", "done"}
    \/ pc = "error" /\ err \in {"KeyError", "IndexError", "TypeError", "ValueError"}

\* C15: with a face or outline colour list of another length than the sample
\* list the constructor raises IndexError and makes no segment and no link.
C15_MismatchedColorListRaisesIndexError ==
    (MismatchedColorList /\ ColorStepEnded) =>
        /\ pc = "error" /\ err = "IndexError"
        /\ segment_starts = Unset /\ segment_ends = Unset /\ links = <<>>

\* C16: when the error for a colour list of another length is raised, no
\* segment length, radius or segment start or end has been derived, and a
\* division by zero of the segment lengths never comes before it.
C16_ConfigErrorBeforeGeometry ==
    /\ (pc = "error" /\ err = "IndexError" /\ MismatchedColorList) =>
           /\ segment_lengths = Unset
           /\ inner_radii = Unset /\ outer_radii = Unset
           /\ segment_starts = Unset /\ segment_ends = Unset
    /\ MismatchedColorList => err # "ZeroDivisionError"

RadiiSet ==
    \/ pc \in {"colors", "segments", "ranks", "links", "done"}
    \/ pc = "error" /\ err \notin {"ZeroDivisionError", "IndexError"}

\* sample i (from 1) is named in offset_segments, by either of its indices
NamedInOffsets(i) ==
    /\ offset_segments.kind # "none"
    /\ \E k \in DOMAIN offset_segments.idx :
           /\ IndexInRange(offset_segments.idx[k], total_samples)
           /\ ListPos(offset_segments.idx[k], total_samples) = i

\* C21: a sample that offset_segments does not name keeps the base inner
\* radius, a sample that it names (as one index or in a collection) has the
\* base inner radius plus the shift amount, and the outer radius of every
\* sample is its inner radius plus the band thickness.
C21_NamedSamplesShiftedOnce ==
    RadiiSet =>
        \A i \in 1..total_samples :
            /\ inner_radii[i] = IF NamedInOffsets(i)
                                THEN RAdd(radius, offset_shift_amount) ELSE radius
            /\ RSub(outer_radii[i], inner_radii[i]) = segment_width

\* C30: a sample that offset_segments names more than once is shifted as if
\* it were named once: every inner radius is the base radius or the base
\* radius plus one shift.
C30_RepeatedIndexShiftsOnce ==
    RadiiSet =>
        \A i \in 1..total_samples :
            inner_radii[i] \in {radius, RAdd(radius, offset_shift_amount)}

\* C22: the two ends of a link are on the inner radii of their own samples,
\* the first on that of sample idx1 and the second on that of sample idx2,
\* also when one of the two samples is offset.
C22_LinkEndsOnOwnInnerRadius ==
    \A l \in DOMAIN links :
        /\ \A k \in DOMAIN links[l].xy1 :
               links[l].xy1[k].radius = inner_radii[links[l].idx1]
        /\ \A k \in DOMAIN links[l].xy2 :
               links[l].xy2[k].radius = inner_radii[links[l].idx2]

C22_Witness ==
    \E l \in DOMAIN links :
        /\ links[l].xy1 # <<>>
        /\ NamedInOffsets(links[l].idx1) /\ ~NamedInOffsets(links[l].idx2)
        /\ links[l].xy1[1].radius = RAdd(radius, offset_shift_amount)
        /\ links[l].xy2[1].radius = radius

(***************************************************************************)
(* The coordinate mapper.                                                  *)
(***************************************************************************)
\* the top, right, bottom and left points of the circle of radius rad around
\* offset: (x, y) = (cx, cy + rad), (cx + rad, cy), (cx, cy - rad), (cx - rad, cy)
PointNamed(name, rad, offset) ==
    [center |-> offset, radius |-> rad,
     theta |-> CASE name = "top" -> R(90)
                 [] name = "right" -> R(0)
                 [] name = "bottom" -> R(270)
                 [] name = "left" -> R(180)]

\* Angle_to_XY was called with the one angle a, in degrees, and has returned
MappedOneAngle(a) ==
    /\ pc = "done" /\ mapper_call # Unset
    /\ mapper_call.angles = OneAngle(a) /\ mapper_call.angles_in_degrees

\* C23: the mapper follows the convention of the start-position table: from
\* the nominal angle of "top", "right", "bottom" and "left" (90, 0, -90 and
\* -180 degrees) and the radius r it yields the top, the right, the bottom
\* and the left point of the circle of radius r.
C23_MapperFollowsStartTable ==
    \A name \in {"top", "right", "bottom", "left"} :
        MappedOneAngle(R(NominalStart({name}))) =>
            xy_coords = PointNamed(name, mapper_call.radius, mapper_call.offset)

(***************************************************************************)
(* The dashboard.                                                          *)
(***************************************************************************)
\* lines 78-95 of Repertoire_Dashboard have run
ComparisonFrameStepEnded == dashboard_call # Unset /\ pc # "dashboard"

\* C24: Repertoire_Dashboard called with one combined frame and no sample_col
\* takes the column "Sample", the documented default, as the sample column:
\* it builds the comparison frame from the caller's frame and raises nothing
\* for the missing argument.
C24_FrameWithoutSampleColUsesSample ==
    (/\ ComparisonFrameStepEnded
     /\ dashboard_call.clone_dfs.form = "frame"
     /\ dashboard_call.sample_col = <<>>)
        => comparison_df = dashboard_call.clone_dfs

(***************************************************************************)
(* Segments and their micro-segments.                                      *)
(***************************************************************************)
\* a moved by d in the direction of the layout: clockwise is decreasing
Onward(a, d) == IF clockwise THEN RSub(a, d) ELSE RAdd(a, d)

\* C25: the end of a segment is its start minus its length when the layout
\* is clockwise and plus its length when it is counter-clockwise, and the
\* start of the next segment is that end minus the gap when clockwise and
\* plus the gap when counter-clockwise.
C25_SegmentsWalkLengthThenGap ==
    SegmentsCreated =>
        \A i \in 1..total_samples :
            /\ segment_ends[i] = Onward(segment_starts[i], segment_lengths[i])
            /\ i < total_samples =>
                   segment_starts[i + 1] = Onward(segment_ends[i], gap_size)

C25_Witness ==
    /\ SegmentsCreated /\ total_samples = 3 /\ ~clockwise /\ ~normalize_segments
    /\ gap_size = <<45, 2>> /\ start_pos = {"bottom"}
    /\ \A i \in 1..3 : ~RIsZero(segment_lengths[i])
    /\ segment_lengths[1] # segment_lengths[2]

\* the wedge of micro-segment j (from 1) of sample i (from 1)
MicroIndex(i, j) == (i - 1) * FadeSteps + j

\* C26: with fading each segment is cut into fade_steps micro-segments of
\* the same length, the length of the segment divided by fade_steps; they
\* follow one another without a hole or an overlap, the first starts at the
\* start of the segment and the last ends at its end, so none is in a gap.
C26_MicroSegmentsTileTheSegment ==
    (SegmentsCreated /\ fade_segments) =>
        /\ Len(wedge_starts) = total_samples * FadeSteps
        /\ Len(wedge_ends) = total_samples * FadeSteps
        /\ \A i \in 1..total_samples : \A j \in 1..FadeSteps :
               /\ wedge_ends[MicroIndex(i, j)] =
                      Onward(wedge_starts[MicroIndex(i, j)],
                             RDiv(segment_lengths[i], R(FadeSteps)))
               /\ wedge_starts[MicroIndex(i, j)] =
                      IF j = 1 THEN segment_starts[i] ELSE wedge_ends[MicroIndex(i, j - 1)]
               /\ j = FadeSteps => wedge_ends[MicroIndex(i, j)] = segment_ends[i]

C26_Witness ==
    /\ SegmentsCreated /\ fade_segments /\ total_samples = 2 /\ ~normalize_segments
    /\ clockwise /\ gap_size = <<45, 2>>
    /\ \A i \in 1..2 : ~RIsZero(segment_lengths[i])
    /\ Len(wedge_starts) = 2 * FadeSteps
    /\ wedge_starts[FadeSteps + 1] = segment_starts[2]

\* C27: with fading the opacity of the micro-segments of every segment goes
\* down by equal steps from 1 on the first to the minimum alpha on the last,
\* and is never zero.
C27_AlphaFromOneDownToMinimum ==
    (SegmentsCreated /\ fade_segments) =>
        \A i \in 1..total_samples :
            /\ segment_alphas[MicroIndex(i, 1)] = R(1)
            /\ segment_alphas[MicroIndex(i, FadeSteps)] = min_segment_alpha
            /\ \A j \in 2..FadeSteps :
                   RSub(segment_alphas[MicroIndex(i, j - 1)], segment_alphas[MicroIndex(i, j)])
                   = RSub(segment_alphas[MicroIndex(i, 1)], segment_alphas[MicroIndex(i, 2)])
            /\ \A j \in 1..FadeSteps : RLt(R(0), segment_alphas[MicroIndex(i, j)])

(***************************************************************************)
(* Link end points and the arcs of their samples.                          *)
(***************************************************************************)
\* the angle handed to Angle_to_XY, read in the orientation of the segments:
\* itself when counter-clockwise, its negation when clockwise
InSegmentOrientation(angle) == IF clockwise THEN RNeg(angle) ELSE angle

\* a is on the arc of sample i, from its start (included) to its end (excluded)
OnArcOf(i, a) ==
    IF clockwise
    THEN RLt(segment_ends[i], a) /\ RLe(a, segment_starts[i])
    ELSE RLe(segment_starts[i], a) /\ RLt(a, segment_ends[i])

\* C28: every end point of a link is on the arc of its own sample: its angle,
\* read in the orientation of the segments, is between the start of the
\* segment (included) and its end (excluded).
C28_LinkEndsInsideOwnArc ==
    \A e \in DOMAIN links :
        \A k \in DOMAIN links[e].rows :
            /\ OnArcOf(links[e].idx1, InSegmentOrientation(links[e].rows[k].pos1))
            /\ OnArcOf(links[e].idx2, InSegmentOrientation(links[e].rows[k].pos2))

C28_Witness ==
    /\ pc = "done" /\ Len(links) = 3
    /\ \E e \in DOMAIN links : \E k \in DOMAIN links[e].rows :
           /\ InSegmentOrientation(links[e].rows[k].pos1) # segment_starts[links[e].idx1]
           /\ InSegmentOrientation(links[e].rows[k].pos2) = segment_starts[links[e].idx2]

(***************************************************************************)
(* Create_Segments called again.                                           *)
(***************************************************************************)
\* the lengths of the columns of the wedges
ColumnLengths(table) ==
    {Len(table.start_angle), Len(table.end_angle), Len(table.inner_radius),
     Len(table.outer_radius), Len(table.fill_color), Len(table.fill_alpha),
     Len(table.legend)}

\* C29: after a second call of Create_Segments with the same arguments the
\* segment starts and ends are those of the first call, and the columns of
\* the wedges (angles, radii, fill colours, alphas, legend) all have one
\* length, the length they had after the first call, with and without fading.
C29_SecondCallBuildsSameSegments ==
    pc = "again" =>
        /\ segment_starts = first_run.segment_starts
        /\ segment_ends = first_run.segment_ends
        /\ ColumnLengths(source_data_dict) = ColumnLengths(first_run.source_data_dict)
        /\ Cardinality(ColumnLengths(source_data_dict)) = 1

=============================================================================
